---- MODULE Spec2Model ----
\* Order-book reconstruction of the Polymarket tools: the historical MarketBook
\* (services/market_book.py) and the live OrderBook (services/order_book.py),
\* both fed with the events of a persisted log (utils/utils.py load_data_cache).
EXTENDS Integers, Sequences, FiniteSets, TLC

VARIABLES
    data,          \* the persisted event log (the list load_data_cache returns)
    order_books,   \* OrderBook.order_books: asset id -> stored book (or the absent value)
    ob_pos,        \* number of log entries OrderBook.data (the iterator) has yielded
    ob_error,      \* exception raised by the last OrderBook call ("none" when it returned)
    states,        \* MarketBook._states
    mb_status,     \* "unbuilt", "built", or the exception MarketBook.__init__ raised
    heap,          \* the objects a running MarketBook._generate_states has created
    mb_refs,       \* its local list "states": references into heap, 0 is the sentinel
    mb_i,          \* number of entries of "updates" its loop has taken
    fold_status,   \* "idle", "running", "done", or the exception it raised
    ob_resets,     \* number of calls of OrderBook.reset so far
    ob_filtered,   \* OrderBook.data iterates over the entries of target_market only
    data_buffer,   \* MarketMonitor.data_buffer: asset id -> buffered entries
    cur_buffer_size, \* MarketMonitor.cur_buffer_size
    write_tasks,   \* the write_buffer tasks flush_buffer has created, with their buffers
    files,         \* the files of cid_mapping: asset id -> lines written
    mon_received,  \* number of messages websocket.recv() has returned
    mon_status,    \* "running" while MarketMonitor.monitor is in its loop, else "returned"
    mon_error      \* the exception that ended the loop ("none" while it runs)

\* the objects of one stepwise run of MarketBook._generate_states
foldVars == <<heap, mb_refs, mb_i, fold_status>>

\* the fields of a MarketMonitor and the state of its monitor() coroutine
monVars == <<data_buffer, cur_buffer_size, write_tasks, files, mon_received, mon_status,
             mon_error>>

vars == <<data, order_books, ob_pos, ob_error, states, mb_status,
          heap, mb_refs, mb_i, fold_status, ob_resets, ob_filtered,
          data_buffer, cur_buffer_size, write_tasks, files, mon_received, mon_status,
          mon_error>>

-----------------------------------------------------------------------------
\* Bounds of the model.

\* longest log that is persisted and replayed
MaxLog == 3
\* most levels a side of a stored book may hold (the code never bounds it)
MaxLevels == 2
\* most calls of OrderBook.reset in one run
MaxResets == 1
\* most messages the monitor receives in one run
MaxMessages == 2

\* Input alphabets.  A price is the index of a tick (the feed spells each price
\* in one way, so equality of the strings is equality of the ticks); a size is a
\* whole number of size units.
Prices == {1, 2}
FeedSizes == {0, 1, 2}
\* numbers of change entries a price_change event of the model carries
ChangeCounts == {1, 2}
Assets == {"A"}
\* the instruments a persisted file can hold events of (the keys of asset_id_mapping)
FileAssets == {"A", "B"}
\* the instruments the monitor has subscribed to (the keys of cid_mapping)
MonitorAssets == {"A", "B"}
Sides == {"BUY", "SELL"}

-----------------------------------------------------------------------------
\* Values.

\* A size as Python holds it: the decimal string of the feed ("2"), a float
\* (2.0), or the string str() makes of a float ("2.0").
Str(n) == [kind |-> "str", num |-> n]
Float(n) == [kind |-> "float", num |-> n]
FloatStr(n) == [kind |-> "fstr", num |-> n]

\* float(x): the number a string or a float stands for
ToFloat(v) == v.num

\* str(x): a string stays as it is, a float becomes its repr
PyStr(v) == IF v.kind = "float" THEN FloatStr(v.num) ELSE v

\* round(x, 3): sizes are whole units, so every difference already has at most
\* three decimals and rounding keeps it
Round3(x) == x

\* a size string that is no number ("abc"): float() raises ValueError on it
NonNumeric == [kind |-> "text", num |-> 0]

\* float(v) returns
IsNumeric(v) == v.kind # "text"

\* a price string that is no number; it equals no tick of the feed
NonNumericPrice == 0 - 1

\* float(p) returns
PriceIsNumeric(p) == p # NonNumericPrice

\* size == "0": comparison of the incoming size with the string "0"
IsZeroString(v) == v.kind = "str" /\ v.num = 0

Level(p, v) == [price |-> p, size |-> v]

\* the sentinel NO_PREVIOUS_STATE, and a missing key of order_books
NO_PREVIOUS_STATE == [present |-> FALSE, bids |-> <<>>, asks |-> <<>>, timestamp |-> 0]

BookOf(bids, asks, ts) == [present |-> TRUE, bids |-> bids, asks |-> asks, timestamp |-> ts]

-----------------------------------------------------------------------------
\* List helpers.

\* index of the first level at price p, 0 when there is none (the for/break loops)
FirstIndex(levels, p) ==
    IF \E i \in 1..Len(levels) : levels[i].price = p
    THEN CHOOSE i \in 1..Len(levels) :
            /\ levels[i].price = p
            /\ \A j \in 1..(i - 1) : levels[j].price # p
    ELSE 0

\* a variant of pop that removes the first element whatever the index
Pop_first(levels, i) == Tail(levels)

\* list.pop(i)
Pop(levels, i) == SubSeq(levels, 1, i - 1) \o SubSeq(levels, i + 1, Len(levels))

\* price_dict["size"] = v
SetSize(levels, i, v) == [levels EXCEPT ![i].size = v]

\* insertion of x behind every element whose price is not greater (stable)
InsertByPrice(sorted, x) ==
    LET n == Cardinality({i \in 1..Len(sorted) : sorted[i].price <= x.price})
    IN SubSeq(sorted, 1, n) \o <<x>> \o SubSeq(sorted, n + 1, Len(sorted))

\* a variant of sorted that returns the list as it is
SortedByPrice_asis(levels) == levels

RECURSIVE SortedByPrice(_)
\* sorted(levels, key=lambda x: float(x["price"])): a stable ascending sort
SortedByPrice(levels) ==
    IF levels = <<>> THEN <<>>
    ELSE InsertByPrice(SortedByPrice(SubSeq(levels, 1, Len(levels) - 1)), levels[Len(levels)])

\* sorted(levels, key=lambda x: float(x["price"])) raises ValueError: the key
\* of some level cannot be computed
SortRaises(levels) == \E i \in 1..Len(levels) : ~PriceIsNumeric(levels[i].price)

TargetOf(side) == IF side = "BUY" THEN "bids" ELSE "asks"
CounterTargetOf(side) == IF side = "BUY" THEN "asks" ELSE "bids"

-----------------------------------------------------------------------------
\* Events of the feed.  Every event carries the same fields; the ones its kind
\* does not use are empty.

BookEvent(a, bids, asks, ts) ==
    [event_type |-> "book", asset_id |-> a, bids |-> bids, asks |-> asks,
     changes |-> <<>>, timestamp |-> ts]

PriceChangeEvent(a, changes, ts) ==
    [event_type |-> "price_change", asset_id |-> a, bids |-> <<>>, asks |-> <<>>,
     changes |-> changes, timestamp |-> ts]

OtherEvent(kind, a, ts) ==
    [event_type |-> kind, asset_id |-> a, bids |-> <<>>, asks |-> <<>>,
     changes |-> <<>>, timestamp |-> ts]

Change(p, side, v) == [price |-> p, side |-> side, size |-> v]

-----------------------------------------------------------------------------
\* The two float() calls of a change.

\* the loop over the opposite side finds a level at the price and
\* float(price_dict["size"]) - float(size) raises ValueError
FloatRaises(book, change) ==
    LET j == FirstIndex(book[CounterTargetOf(change.side)], change.price)
    IN /\ j # 0
       /\ \/ ~IsNumeric(book[CounterTargetOf(change.side)][j].size)
          \/ ~IsNumeric(change.size)

\* the loop over the named side alone: what a change has done to the book when
\* the loop over the opposite side raises
SameSideLoop(book, change) ==
    LET target == TargetOf(change.side)
        i == FirstIndex(book[target], change.price)
    IN IF i = 0 THEN book
       ELSE IF IsZeroString(change.size) THEN [book EXCEPT ![target] = Pop(book[target], i)]
       ELSE [book EXCEPT ![target] = SetSize(book[target], i, PyStr(change.size))]

-----------------------------------------------------------------------------
\* MarketBook (historical replay).

\* body of "for change in update['changes']" in MarketBook._update
MarketBook_apply_change(state, change) ==
    LET price == change.price
        size == change.size
        target == TargetOf(change.side)
        counter_target == CounterTargetOf(change.side)
        i == FirstIndex(state[target], price)
        same == IF i = 0 THEN state[target]
                ELSE IF IsZeroString(size) THEN Pop(state[target], i)
                ELSE SetSize(state[target], i, PyStr(size))
        j == FirstIndex(state[counter_target], price)
        size_diff == Round3(ToFloat(state[counter_target][j].size) - ToFloat(size))
        counter == IF j = 0 THEN state[counter_target]
                   ELSE IF size_diff = 0 THEN Pop(state[counter_target], j)
                   ELSE IF size_diff > 0
                        THEN SetSize(state[counter_target], j, Float(size_diff))
                   ELSE state[counter_target]
        spilled == IF j # 0 /\ size_diff < 0
                   THEN Append(same, Level(price, PyStr(Float(0 - size_diff))))
                   ELSE same
        updated == i # 0 \/ j # 0
        final == IF updated THEN spilled ELSE Append(spilled, Level(price, size))
    IN [state EXCEPT ![target] = final, ![counter_target] = counter]

RECURSIVE MarketBook_apply_changes(_, _)
\* the loop over update["changes"], in list order
MarketBook_apply_changes(state, changes) ==
    IF changes = <<>> THEN state
    ELSE MarketBook_apply_changes(MarketBook_apply_change(state, Head(changes)),
                                  Tail(changes))

RECURSIVE MarketBook_changes_raise(_, _)
\* some change of the list raises in float()
MarketBook_changes_raise(state, changes) ==
    IF changes = <<>> THEN FALSE
    ELSE IF FloatRaises(state, Head(changes)) THEN TRUE
    ELSE MarketBook_changes_raise(MarketBook_apply_change(state, Head(changes)),
                                  Tail(changes))

\* MarketBook_construct_book without the two sorts
MarketBook_construct_book_unsorted(update) ==
    BookOf(update.bids, update.asks, update.timestamp)

\* MarketBook._construct_book: the event itself, its two lists sorted
MarketBook_construct_book(update) ==
    BookOf(SortedByPrice(update.bids), SortedByPrice(update.asks), update.timestamp)

\* MarketBook_update without the test for the sentinel
MarketBook_update_unchecked(update, previous_state) ==
    IF update.event_type = "book"
    THEN [error |-> "none", state |-> MarketBook_construct_book(update)]
    ELSE LET next_state == MarketBook_apply_changes(previous_state, update.changes)
         IN [error |-> "none",
             state |-> [next_state EXCEPT !.bids = SortedByPrice(next_state.bids),
                                          !.asks = SortedByPrice(next_state.asks)]]

\* MarketBook._update: [error, state].  An exception of float(), in a change or
\* in a sort key, leaves the function without a state; the copy it worked on
\* is dropped.
MarketBook_update(update, previous_state) ==
    IF update.event_type = "book"
    THEN IF SortRaises(update.bids) \/ SortRaises(update.asks)
         THEN [error |-> "ValueError", state |-> NO_PREVIOUS_STATE]
         ELSE [error |-> "none", state |-> MarketBook_construct_book(update)]
    ELSE IF previous_state = NO_PREVIOUS_STATE
    THEN [error |-> "ValueError", state |-> NO_PREVIOUS_STATE]
    ELSE IF MarketBook_changes_raise(previous_state, update.changes)
    THEN [error |-> "ValueError", state |-> NO_PREVIOUS_STATE]
    ELSE LET next_state == MarketBook_apply_changes(previous_state, update.changes)
         IN IF SortRaises(next_state.bids) \/ SortRaises(next_state.asks)
            THEN [error |-> "ValueError", state |-> NO_PREVIOUS_STATE]
            ELSE [error |-> "none",
                  state |-> [next_state EXCEPT !.bids = SortedByPrice(next_state.bids),
                                               !.asks = SortedByPrice(next_state.asks)]]

\* MarketBook_get_updates reading what is left of the live reader's iterator
\* instead of loading the file itself
MarketBook_get_updates_shared_iterator(log, asset_id) ==
    SelectSeq(SubSeq(log, ob_pos + 1, Len(log)), LAMBDA entry : entry.asset_id = asset_id)

\* MarketBook._get_updates: the entries of the log that carry the asset id
MarketBook_get_updates(log, asset_id) == SelectSeq(log, LAMBDA entry : entry.asset_id = asset_id)

\* valid_types without "price_change"
valid_types_book_only == {"book"}

\* valid_types with the two ignored kinds added
valid_types_with_ignored == {"price_change", "book", "tick_size_change", "last_trade_price"}

\* the event types MarketBook._generate_states folds
valid_types == {"price_change", "book"}

RECURSIVE MarketBook_fold(_, _, _)
\* the loop of MarketBook._generate_states from entry i on: [error, states]
MarketBook_fold(updates, i, acc) ==
    IF i > Len(updates) THEN [error |-> "none", states |-> acc]
    ELSE IF updates[i].event_type \notin valid_types
    THEN MarketBook_fold(updates, i + 1, acc)
    ELSE LET r == MarketBook_update(updates[i], acc[Len(acc)])
         IN IF r.error # "none"
            THEN [error |-> r.error, states |-> <<>>]
            ELSE MarketBook_fold(updates, i + 1,
                    Append(acc, [r.state EXCEPT !.timestamp = updates[i].timestamp]))

\* MarketBook._generate_states: [error, states]
MarketBook_generate_states(log, asset_id) ==
    MarketBook_fold(MarketBook_get_updates(log, asset_id), 1, <<NO_PREVIOUS_STATE>>)

\* MarketBook.__getitem__: Python indexing of _states, negative indices from the end
MarketBook_getitem(sts, index) ==
    IF index >= 0 THEN sts[index + 1] ELSE sts[Len(sts) + index + 1]

\* self._states[index] raises IndexError outside -len .. len - 1
InRange(sts, index) == 0 - Len(sts) <= index /\ index < Len(sts)

\* MarketBook_get_best_bid without the test for the sentinel (the sentinel has
\* no "bids" to subscript)
MarketBook_get_best_bid_unchecked(sts, index) ==
    IF ~InRange(sts, index) THEN [error |-> "IndexError", price |-> 0, size |-> 0]
    ELSE LET book == MarketBook_getitem(sts, index)
         IN IF book = NO_PREVIOUS_STATE
            THEN [error |-> "TypeError", price |-> 0, size |-> 0]
            ELSE IF book.bids = <<>>
            THEN [error |-> "IndexError", price |-> 0, size |-> 0]
            ELSE [error |-> "none", price |-> book.bids[Len(book.bids)].price,
                  size |-> ToFloat(book.bids[Len(book.bids)].size)]

\* MarketBook.get_best_bid: [error, price, size]; book["bids"][-1] raises
\* IndexError on an empty side
MarketBook_get_best_bid(sts, index) ==
    IF ~InRange(sts, index) THEN [error |-> "IndexError", price |-> 0, size |-> 0]
    ELSE LET book == MarketBook_getitem(sts, index)
         IN IF book = NO_PREVIOUS_STATE
            THEN [error |-> "ValueError", price |-> 0, size |-> 0]
            ELSE IF book.bids = <<>>
            THEN [error |-> "IndexError", price |-> 0, size |-> 0]
            ELSE [error |-> "none", price |-> book.bids[Len(book.bids)].price,
                  size |-> ToFloat(book.bids[Len(book.bids)].size)]

\* MarketBook_get_best_ask reading the last ask instead of the first
MarketBook_get_best_ask_last(sts, index) ==
    IF ~InRange(sts, index) THEN [error |-> "IndexError", price |-> 0, size |-> 0]
    ELSE LET book == MarketBook_getitem(sts, index)
         IN IF book = NO_PREVIOUS_STATE
            THEN [error |-> "ValueError", price |-> 0, size |-> 0]
            ELSE IF book.asks = <<>>
            THEN [error |-> "IndexError", price |-> 0, size |-> 0]
            ELSE [error |-> "none", price |-> book.asks[Len(book.asks)].price,
                  size |-> ToFloat(book.asks[Len(book.asks)].size)]

\* MarketBook.get_best_ask: [error, price, size]; book["asks"][0] raises
\* IndexError on an empty side
MarketBook_get_best_ask(sts, index) ==
    IF ~InRange(sts, index) THEN [error |-> "IndexError", price |-> 0, size |-> 0]
    ELSE LET book == MarketBook_getitem(sts, index)
         IN IF book = NO_PREVIOUS_STATE
            THEN [error |-> "ValueError", price |-> 0, size |-> 0]
            ELSE IF book.asks = <<>>
            THEN [error |-> "IndexError", price |-> 0, size |-> 0]
            ELSE [error |-> "none", price |-> book.asks[1].price,
                  size |-> ToFloat(book.asks[1].size)]

-----------------------------------------------------------------------------
\* OrderBook (live).

\* OrderBook_apply_change with the fallback insertion left out
OrderBook_apply_change_no_fallback(target_book, change) ==
    LET price == change.price
        size == change.size
        target == TargetOf(change.side)
        counter_target == CounterTargetOf(change.side)
        i == FirstIndex(target_book[target], price)
        same == IF i = 0 THEN target_book[target]
                ELSE IF IsZeroString(size) THEN Pop(target_book[target], i)
                ELSE SetSize(target_book[target], i, PyStr(size))
        j == FirstIndex(target_book[counter_target], price)
        size_diff == Round3(ToFloat(target_book[counter_target][j].size) - ToFloat(size))
        counter == IF j = 0 THEN target_book[counter_target]
                   ELSE IF size_diff = 0 THEN Pop(target_book[counter_target], j)
                   ELSE IF size_diff > 0
                        THEN SetSize(target_book[counter_target], j, Float(size_diff))
                   ELSE target_book[counter_target]
        spilled == IF j # 0 /\ size_diff < 0
                   THEN Append(same, Level(price, PyStr(Float(0 - size_diff))))
                   ELSE same
    IN [target_book EXCEPT ![target] = spilled, ![counter_target] = counter]

\* body of "for change in update['changes']" in OrderBook._update_price
OrderBook_apply_change(target_book, change) ==
    LET price == change.price
        size == change.size
        target == TargetOf(change.side)
        counter_target == CounterTargetOf(change.side)
        i == FirstIndex(target_book[target], price)
        same == IF i = 0 THEN target_book[target]
                ELSE IF IsZeroString(size) THEN Pop(target_book[target], i)
                ELSE SetSize(target_book[target], i, PyStr(size))
        j == FirstIndex(target_book[counter_target], price)
        size_diff == Round3(ToFloat(target_book[counter_target][j].size) - ToFloat(size))
        counter == IF j = 0 THEN target_book[counter_target]
                   ELSE IF size_diff = 0 THEN Pop(target_book[counter_target], j)
                   ELSE IF size_diff > 0
                        THEN SetSize(target_book[counter_target], j, Float(size_diff))
                   ELSE target_book[counter_target]
        spilled == IF j # 0 /\ size_diff < 0
                   THEN Append(same, Level(price, PyStr(Float(0 - size_diff))))
                   ELSE same
        updated == i # 0 \/ j # 0
        final == IF updated THEN spilled ELSE Append(spilled, Level(price, size))
    IN [target_book EXCEPT ![target] = final, ![counter_target] = counter]

\* a variant of the loop that stops after the first change
OrderBook_apply_changes_first(target_book, changes) ==
    IF changes = <<>> THEN target_book
    ELSE OrderBook_apply_change(target_book, Head(changes))

RECURSIVE OrderBook_apply_changes(_, _)
\* the loop over update["changes"], in list order
OrderBook_apply_changes(target_book, changes) ==
    IF changes = <<>> THEN target_book
    ELSE OrderBook_apply_changes(OrderBook_apply_change(target_book, Head(changes)),
                                 Tail(changes))

RECURSIVE OrderBook_changes_raise(_, _)
\* some change of the list raises in float()
OrderBook_changes_raise(target_book, changes) ==
    IF changes = <<>> THEN FALSE
    ELSE IF FloatRaises(target_book, Head(changes)) THEN TRUE
    ELSE OrderBook_changes_raise(OrderBook_apply_change(target_book, Head(changes)),
                                 Tail(changes))

RECURSIVE OrderBook_changes_until_raise(_, _)
\* the stored book at the moment a change raises: the changes before it are
\* applied, and of the raising change the loop over the named side
OrderBook_changes_until_raise(target_book, changes) ==
    IF FloatRaises(target_book, Head(changes))
    THEN SameSideLoop(target_book, Head(changes))
    ELSE OrderBook_changes_until_raise(OrderBook_apply_change(target_book, Head(changes)),
                                       Tail(changes))

\* OrderBook._update_price: [error, books]; order_books[asset_id] raises KeyError
\* when the asset has no stored book.  The changes mutate the stored book in
\* place, so what was done before an exception of float() stays done: after a
\* raising change the lists are as the loop left them, after a raising sort of
\* the bids neither list is sorted, after a raising sort of the asks the bids are.
OrderBook_update_price(books, update) ==
    IF ~books[update.asset_id].present
    THEN [error |-> "KeyError", books |-> books]
    ELSE IF OrderBook_changes_raise(books[update.asset_id], update.changes)
    THEN [error |-> "ValueError",
          books |-> [books EXCEPT ![update.asset_id] =
                       OrderBook_changes_until_raise(books[update.asset_id], update.changes)]]
    ELSE LET target_book == OrderBook_apply_changes(books[update.asset_id], update.changes)
         IN IF SortRaises(target_book.bids)
            THEN [error |-> "ValueError", books |-> [books EXCEPT ![update.asset_id] = target_book]]
            ELSE IF SortRaises(target_book.asks)
            THEN [error |-> "ValueError",
                  books |-> [books EXCEPT ![update.asset_id] =
                               [target_book EXCEPT !.bids = SortedByPrice(target_book.bids)]]]
            ELSE [error |-> "none",
                  books |-> [books EXCEPT ![update.asset_id] =
                               [target_book EXCEPT !.bids = SortedByPrice(target_book.bids),
                                                   !.asks = SortedByPrice(target_book.asks)]]]

\* OrderBook_update_book that leaves a stored book in place
OrderBook_update_book_keep(books, update) ==
    IF books[update.asset_id].present
    THEN [error |-> "none", books |-> books]
    ELSE [error |-> "none",
          books |-> [books EXCEPT ![update.asset_id] =
                       BookOf(SortedByPrice(update.bids), SortedByPrice(update.asks),
                              update.timestamp)]]

\* a variant of _update_book that replaces the book of every instrument
OrderBook_update_book_all(books, update) ==
    IF SortRaises(update.bids) \/ SortRaises(update.asks)
    THEN [error |-> "ValueError", books |-> books]
    ELSE [error |-> "none",
          books |-> [cid \in DOMAIN books |->
                       BookOf(SortedByPrice(update.bids), SortedByPrice(update.asks),
                              update.timestamp)]]

\* OrderBook._update_book: the event replaces the stored book, its lists
\* sorted; a sort that raises leaves order_books as it was
OrderBook_update_book(books, update) ==
    IF SortRaises(update.bids) \/ SortRaises(update.asks)
    THEN [error |-> "ValueError", books |-> books]
    ELSE [error |-> "none",
          books |-> [books EXCEPT ![update.asset_id] =
                       BookOf(SortedByPrice(update.bids), SortedByPrice(update.asks),
                              update.timestamp)]]

\* OrderBook.update: dispatch on the event type
OrderBook_update(books, update) ==
    CASE update.event_type = "price_change" -> OrderBook_update_price(books, update)
      [] update.event_type = "book" -> OrderBook_update_book(books, update)
      [] update.event_type = "tick_size_change" -> [error |-> "none", books |-> books]
      [] update.event_type = "last_trade_price" -> [error |-> "none", books |-> books]
      [] OTHER -> [error |-> "none", books |-> books]

-----------------------------------------------------------------------------
\* Inputs.

\* level lists of a snapshot: any order, one level per price, no zero size
SnapshotLevels ==
    {lv \in UNION {[1..n -> {Level(p, Str(v)) : p \in Prices, v \in FeedSizes \ {0}}] :
                     n \in 0..Cardinality(Prices)} :
        \A i, j \in 1..Len(lv) : i # j => lv[i].price # lv[j].price}

\* snapshots: no price is quoted on both sides
BookEvents ==
    {e \in {BookEvent(a, b, s, 1) : a \in Assets, b \in SnapshotLevels, s \in SnapshotLevels} :
        \A i \in 1..Len(e.bids), j \in 1..Len(e.asks) : e.bids[i].price # e.asks[j].price}

Changes == {Change(p, side, Str(v)) : p \in Prices, side \in Sides, v \in FeedSizes}

PriceChangeEvents ==
    {PriceChangeEvent(a, cs, 1) :
        a \in Assets, cs \in UNION {[1..n -> Changes] : n \in ChangeCounts}}

OtherKinds == {"tick_size_change", "last_trade_price", "unknown"}

OtherEvents == {OtherEvent(k, a, 1) : k \in OtherKinds, a \in Assets}

-----------------------------------------------------------------------------
\* State machine.

Init ==
    /\ data = <<>>
    /\ order_books = [a \in FileAssets |-> NO_PREVIOUS_STATE]
    /\ ob_pos = 0
    /\ ob_error = "none"
    /\ states = <<>>
    /\ mb_status = "unbuilt"
    /\ heap = <<>>
    /\ mb_refs = <<>>
    /\ mb_i = 0
    /\ fold_status = "idle"
    /\ ob_resets = 0
    /\ ob_filtered = FALSE
    /\ data_buffer = [cid \in MonitorAssets |-> <<>>]
    /\ cur_buffer_size = 0
    /\ write_tasks = <<>>
    /\ files = [cid \in MonitorAssets |-> <<>>]
    /\ mon_received = 0
    /\ mon_status = "running"
    /\ mon_error = "none"

\* the stored books stay within the model's depth
WithinDepth(books) ==
    \A a \in Assets : Len(books[a].bids) <= MaxLevels /\ Len(books[a].asks) <= MaxLevels

\* OrderBook.update(update), called with an event of the feed
Update(update) ==
    LET r == OrderBook_update(order_books, update)
    IN /\ WithinDepth(r.books)
       /\ order_books' = r.books
       /\ ob_error' = r.error
       /\ UNCHANGED <<data, ob_pos, states, mb_status, foldVars, ob_resets, ob_filtered, monVars>>

UpdateBook == \E e \in BookEvents : Update(e)
UpdatePrice == \E e \in PriceChangeEvents : Update(e)
UpdateOther == \E e \in OtherEvents : Update(e)

NextLive == UpdateBook \/ UpdatePrice \/ UpdateOther

\* the live book driven event by event
SpecLive == Init /\ [][NextLive]_vars

-----------------------------------------------------------------------------
\* Replay of a persisted log by both readers.

\* the instrument the readers are constructed for
TargetAsset == "A"

\* events of the persisted logs: uncrossed snapshots of unit sizes that quote
\* every price or none, deltas of one change, and the other kinds
LogEvents ==
    {e \in BookEvents :
        /\ Len(e.bids) + Len(e.asks) \in {0, Cardinality(Prices)}
        /\ \A i \in 1..Len(e.bids) : ToFloat(e.bids[i].size) = 1
        /\ \A i \in 1..Len(e.asks) : ToFloat(e.asks[i].size) = 1
        /\ \A i \in 1..Len(e.bids), j \in 1..Len(e.asks) : e.bids[i].price < e.asks[j].price}
    \cup {e \in PriceChangeEvents : Len(e.changes) = 1}
    \cup OtherEvents

\* the transport persists the next event of the feed; arrival order is the
\* order of the timestamps.  The log is complete before a reader loads it.
Record ==
    /\ Len(data) < MaxLog
    /\ ob_pos = 0
    /\ ob_error = "none"
    /\ mb_status = "unbuilt"
    /\ fold_status = "idle"
    /\ \E e \in LogEvents : data' = Append(data, [e EXCEPT !.timestamp = Len(data) + 1])
    /\ UNCHANGED <<order_books, ob_pos, ob_error, states, mb_status, foldVars, ob_resets, ob_filtered, monVars>>

\* MarketBook.__init__: folds the whole log, or raises and leaves no object
MarketBookInit ==
    /\ mb_status = "unbuilt"
    /\ LET r == MarketBook_generate_states(data, TargetAsset)
       IN /\ states' = r.states
          /\ mb_status' = IF r.error = "none" THEN "built" ELSE r.error
    /\ UNCHANGED <<data, order_books, ob_pos, ob_error, foldVars, ob_resets, ob_filtered, monVars>>

\* OrderBook.display_book: reads order_books[asset_id]
OrderBook_display_book(books, asset_id) ==
    IF books[asset_id].present THEN "none" ELSE "KeyError"

\* the list OrderBook.data iterates over: the loaded file, or its entries for
\* target_market when __init__ filtered it
OrderBook_data ==
    IF ob_filtered
    THEN SelectSeq(data, LAMBDA entry : entry.asset_id = TargetAsset)
    ELSE data

\* OrderBook.next_tick: takes the next entry of the iterator, applies it and
\* displays the book of its asset
NextTick ==
    /\ ob_pos < Len(OrderBook_data)
    /\ LET next_update == OrderBook_data[ob_pos + 1]
           r == OrderBook_update(order_books, next_update)
       IN /\ order_books' = r.books
          /\ ob_error' = IF r.error # "none" THEN r.error
                         ELSE OrderBook_display_book(r.books, next_update.asset_id)
    /\ ob_pos' = ob_pos + 1
    /\ UNCHANGED <<data, states, mb_status, foldVars, ob_resets, ob_filtered, monVars>>

\* OrderBook.next_tick on an exhausted iterator: next() raises StopIteration
NextTickExhausted ==
    /\ ob_pos = Len(OrderBook_data)
    /\ ob_error # "StopIteration"
    /\ ob_error' = "StopIteration"
    /\ UNCHANGED <<data, order_books, ob_pos, states, mb_status, foldVars, ob_resets, ob_filtered, monVars>>

Next == Record \/ MarketBookInit \/ NextTick \/ NextTickExhausted

Spec == Init /\ [][Next]_vars

-----------------------------------------------------------------------------
\* MarketBook._generate_states run step by step over the objects it creates.
\* A reference is an index into heap; 0 is the one sentinel object.

\* the object a reference names
Deref(h, r) == IF r = 0 THEN NO_PREVIOUS_STATE ELSE h[r]

\* a reference handed on as it is, no copy made
copy_alias(h, r) == [heap |-> h, ref |-> r]

\* copy.deepcopy(previous_state): a new object with the same content
copy_deepcopy(h, r) == [heap |-> Append(h, h[r]), ref |-> Len(h) + 1]

\* updates = self._get_updates(...); states = [NO_PREVIOUS_STATE]
GenerateStatesBegin ==
    /\ fold_status = "idle"
    /\ mb_status = "unbuilt"
    /\ ob_pos = 0
    /\ ob_error = "none"
    /\ fold_status' = "running"
    /\ heap' = <<>>
    /\ mb_refs' = <<0>>
    /\ mb_i' = 0
    /\ UNCHANGED <<data, order_books, ob_pos, ob_error, states, mb_status, ob_resets, ob_filtered, monVars>>

\* one turn of "for update in updates": an event of another type is passed
\* over; a snapshot is sorted in place and is itself the new state; a delta
\* raises on the sentinel and otherwise mutates a deep copy of states[-1]; the
\* new state gets the timestamp of the event and is appended
GenerateStatesStep ==
    /\ fold_status = "running"
    /\ LET updates == MarketBook_get_updates(data, TargetAsset)
       IN /\ mb_i < Len(updates)
          /\ LET update == updates[mb_i + 1]
                 previous == mb_refs[Len(mb_refs)]
                 c == copy_deepcopy(heap, previous)
                 r == MarketBook_update(update, Deref(heap, previous))
             IN IF update.event_type \notin valid_types
                THEN /\ mb_i' = mb_i + 1
                     /\ UNCHANGED <<heap, mb_refs, fold_status>>
                ELSE IF update.event_type = "book"
                THEN /\ heap' = Append(heap, [r.state EXCEPT !.timestamp = update.timestamp])
                     /\ mb_refs' = Append(mb_refs, Len(heap) + 1)
                     /\ mb_i' = mb_i + 1
                     /\ UNCHANGED fold_status
                ELSE IF r.error # "none"
                THEN /\ fold_status' = r.error
                     /\ mb_refs' = <<>>
                     /\ UNCHANGED <<heap, mb_i>>
                ELSE /\ heap' = [c.heap EXCEPT ![c.ref] =
                                   [r.state EXCEPT !.timestamp = update.timestamp]]
                     /\ mb_refs' = Append(mb_refs, c.ref)
                     /\ mb_i' = mb_i + 1
                     /\ UNCHANGED fold_status
    /\ UNCHANGED <<data, order_books, ob_pos, ob_error, states, mb_status, ob_resets, ob_filtered, monVars>>

\* return states
GenerateStatesReturn ==
    /\ fold_status = "running"
    /\ mb_i = Len(MarketBook_get_updates(data, TargetAsset))
    /\ fold_status' = "done"
    /\ UNCHANGED <<data, order_books, ob_pos, ob_error, states, mb_status,
                   heap, mb_refs, mb_i, ob_resets, ob_filtered, monVars>>

NextFold == Record \/ GenerateStatesBegin \/ GenerateStatesStep \/ GenerateStatesReturn

\* a log is persisted, then one MarketBook is built from it statement by statement
SpecFold == Init /\ [][NextFold]_vars

-----------------------------------------------------------------------------
\* OrderBook.reset and load_data_cache with a timestamp.

\* timestamp=None, the default of load_data_cache and of OrderBook.reset
NoTimestamp == [is_none |-> TRUE, utc_seconds |-> 0]

\* unix_to_utc: the datetime of a count of seconds (the timestamps of the model
\* are second counts, so no millisecond digits are cut off)
unix_to_utc(timestamp) == [is_none |-> FALSE, utc_seconds |-> timestamp]

\* the datetimes reset is called with: the seconds the log can hold, and one later
ResetTimes == {unix_to_utc(t) : t \in 1..(MaxLog + 1)}

\* datetime > datetime
LaterThan(d1, d2) == d1.utc_seconds > d2.utc_seconds

\* load_data_cache(fp, timestamp) on a file that holds log: [error, result].
\* threshold_index is the first entry whose datetime is greater than the
\* timestamp; it is never assigned when there is no such entry, and the slice
\* then raises UnboundLocalError
load_data_cache(log, timestamp) ==
    IF timestamp.is_none THEN [error |-> "none", result |-> log]
    ELSE LET later == {i \in 1..Len(log) :
                          LaterThan(unix_to_utc(log[i].timestamp), timestamp)}
         IN IF later = {}
            THEN [error |-> "UnboundLocalError", result |-> <<>>]
            ELSE LET threshold_index == CHOOSE i \in later : \A j \in later : i <= j
                 IN [error |-> "none", result |-> SubSeq(log, threshold_index, Len(log))]

\* OrderBook.reset(timestamp): self.data becomes an iterator over the list
\* load_data_cache returns, a suffix of the log, with no filter on it; nothing
\* else is assigned.  When load_data_cache raises, the call raises and the
\* iterator stays as it was.
OrderBook_reset(timestamp) ==
    LET r == load_data_cache(data, timestamp)
    IN /\ ob_resets < MaxResets
       /\ ob_resets' = ob_resets + 1
       /\ IF r.error = "none"
          THEN ob_pos' = Len(data) - Len(r.result)
          ELSE ob_pos' = ob_pos
       /\ ob_filtered' = IF r.error = "none" THEN FALSE ELSE ob_filtered
       /\ ob_error' = r.error
       /\ UNCHANGED <<data, order_books, states, mb_status, foldVars, monVars>>

\* reset()
Reset == OrderBook_reset(NoTimestamp)

\* reset(timestamp)
ResetFrom == \E t \in ResetTimes : OrderBook_reset(t)

NextReset == Record \/ NextTick \/ NextTickExhausted \/ Reset \/ ResetFrom

\* a live reader that ticks through the log and is reset
SpecReset == Init /\ [][NextReset]_vars

-----------------------------------------------------------------------------
\* OrderBook constructed with target_market.

\* the instrument of the file that is not the target
OtherAsset == "B"

\* events of the other instrument in the file: snapshots and a delta
OtherLogEvents ==
    {BookEvent(OtherAsset, <<>>, <<>>, 1),
     BookEvent(OtherAsset, <<Level(1, Str(1))>>, <<Level(2, Str(1))>>, 1),
     PriceChangeEvent(OtherAsset, <<Change(1, "BUY", Str(2))>>, 1)}

\* the transport persists an event of the other instrument
RecordOther ==
    /\ Len(data) < MaxLog
    /\ ob_pos = 0
    /\ ob_error = "none"
    /\ \E e \in OtherLogEvents : data' = Append(data, [e EXCEPT !.timestamp = Len(data) + 1])
    /\ UNCHANGED <<order_books, ob_pos, ob_error, states, mb_status, foldVars, ob_resets,
                   ob_filtered, monVars>>

\* OrderBook.__init__(asset_id_mapping, fp_data, target_market=TargetAsset):
\* self.data iterates over the entries of the target
InitTarget ==
    /\ data = <<>>
    /\ order_books = [a \in FileAssets |-> NO_PREVIOUS_STATE]
    /\ ob_pos = 0
    /\ ob_error = "none"
    /\ states = <<>>
    /\ mb_status = "unbuilt"
    /\ heap = <<>>
    /\ mb_refs = <<>>
    /\ mb_i = 0
    /\ fold_status = "idle"
    /\ ob_resets = 0
    /\ ob_filtered = TRUE
    /\ data_buffer = [cid \in MonitorAssets |-> <<>>]
    /\ cur_buffer_size = 0
    /\ write_tasks = <<>>
    /\ files = [cid \in MonitorAssets |-> <<>>]
    /\ mon_received = 0
    /\ mon_status = "running"
    /\ mon_error = "none"

NextTarget == Record \/ RecordOther \/ NextTick \/ NextTickExhausted \/ Reset \/ ResetFrom

\* a live reader of one instrument that ticks through a file of two and is reset
SpecTarget == InitTarget /\ [][NextTarget]_vars

-----------------------------------------------------------------------------
\* MarketMonitor (transport and buffering).

\* the max_buffer_size a MarketMonitor is constructed with, small so that flushes happen
max_buffer_size == 1

\* updates of the wire as the monitor reads them: the event type, the asset id
\* of a book or last_trade_price update, the asset ids of the entries of
\* price_changes
WireUpdate(kind, a, change_assets) ==
    [event_type |-> kind, asset_id |-> a, price_changes |-> change_assets]

WireUpdates ==
    {WireUpdate(k, a, <<>>) : k \in {"book", "last_trade_price"}, a \in MonitorAssets}
    \cup {WireUpdate("price_change", "A", cs) : cs \in {<<"A">>, <<"A", "B">>}}
    \cup {WireUpdate(k, "A", <<>>) : k \in {"tick_size_change", "unknown"}}

\* a text message of the socket: "PONG", or the JSON of one update or of a list
WireMessages ==
    {[pong |-> TRUE, updates |-> <<>>]}
    \cup {[pong |-> FALSE, updates |-> us] : us \in UNION {[1..n -> WireUpdates] : n \in 1..2}}

\* what is appended to a buffer list: the update, or one entry of price_changes;
\* msg, pos and sub tell the entries of a run apart
BufferEntry(kind, a, msg, pos, sub) ==
    [kind |-> kind, asset_id |-> a, msg |-> msg, pos |-> pos, sub |-> sub]

\* defaultdict(list) with nothing in it
EmptyBuffer == [cid \in MonitorAssets |-> <<>>]

\* the task asyncio.create_task(asyncio.to_thread(self.write_buffer, buffer))
\* creates: its buffer and the number of keys of it write_buffer has written
WriteTask(buffer) == [buffer |-> buffer, written |-> 0]

\* a variant of flush_buffer that keeps the buffer after handing it over
MarketMonitor_flush_buffer_keep(m) ==
    [m EXCEPT !.write_tasks = Append(m.write_tasks, WriteTask(m.data_buffer)),
              !.cur_buffer_size = 0]

\* MarketMonitor.flush_buffer: a deep copy of the buffer goes to a write_buffer
\* task, the buffer and the count start again
MarketMonitor_flush_buffer(m) ==
    [m EXCEPT !.write_tasks = Append(m.write_tasks, WriteTask(m.data_buffer)),
              !.data_buffer = EmptyBuffer,
              !.cur_buffer_size = 0]

RECURSIVE AppendChanges(_, _, _, _, _)
\* for change in update["price_changes"]: data_buffer[change["asset_id"]].append(change)
AppendChanges(buffer, change_assets, msg, pos, j) ==
    IF j > Len(change_assets) THEN buffer
    ELSE AppendChanges(
            [buffer EXCEPT ![change_assets[j]] =
                Append(@, BufferEntry("change", change_assets[j], msg, pos, j))],
            change_assets, msg, pos, j + 1)

RECURSIVE MarketMonitor_process_data(_, _, _, _)
\* MarketMonitor.process_data from update pos on; m holds the fields of the
\* monitor and the exception raised.  Any other event type flushes the buffer
\* and raises ValueError.
MarketMonitor_process_data(m, updates, msg, pos) ==
    IF pos > Len(updates) THEN m
    ELSE LET update == updates[pos]
             event_type == update.event_type
         IN IF event_type \in {"book", "last_trade_price"}
            THEN MarketMonitor_process_data(
                    [m EXCEPT !.data_buffer[update.asset_id] =
                                  Append(@, BufferEntry(event_type, update.asset_id, msg, pos, 0)),
                              !.cur_buffer_size = @ + 1],
                    updates, msg, pos + 1)
            ELSE IF event_type = "price_change"
            THEN MarketMonitor_process_data(
                    [m EXCEPT !.data_buffer =
                                  AppendChanges(@, update.price_changes, msg, pos, 1),
                              !.cur_buffer_size = @ + 1],
                    updates, msg, pos + 1)
            ELSE [MarketMonitor_flush_buffer(m) EXCEPT !.error = "ValueError"]

\* the fields of the monitor as one record
Monitor ==
    [data_buffer |-> data_buffer, cur_buffer_size |-> cur_buffer_size,
     write_tasks |-> write_tasks, error |-> "none"]

\* one turn of the loop of MarketMonitor.monitor on a received message:
\* json.loads raises on "PONG"; process_data; flush when the count is over
\* max_buffer_size.  An exception leaves the loop.
MonitorTurn(m, message, msg) ==
    IF message.pong THEN [m EXCEPT !.error = "JSONDecodeError"]
    ELSE LET r == MarketMonitor_process_data(m, message.updates, msg, 1)
         IN IF r.error # "none" THEN r
            ELSE IF r.cur_buffer_size > max_buffer_size
            THEN MarketMonitor_flush_buffer(r)
            ELSE r

\* m = await websocket.recv() returns a message and the turn of the loop runs;
\* after "except Exception" monitor() sleeps and returns
MonitorReceive ==
    /\ mon_status = "running"
    /\ mon_received < MaxMessages
    /\ \E message \in WireMessages :
          LET r == MonitorTurn(Monitor, message, mon_received + 1)
          IN /\ data_buffer' = r.data_buffer
             /\ cur_buffer_size' = r.cur_buffer_size
             /\ write_tasks' = r.write_tasks
             /\ mon_error' = r.error
             /\ mon_status' = IF r.error = "none" THEN "running" ELSE "returned"
    /\ mon_received' = mon_received + 1
    /\ UNCHANGED <<data, order_books, ob_pos, ob_error, states, mb_status, foldVars, ob_resets,
                   ob_filtered,
                   files>>

\* websocket.recv() raises ConnectionClosedError: the handler logs, sleeps
\* reconnect_delay, and monitor() returns
MonitorConnectionClosed ==
    /\ mon_status = "running"
    /\ mon_status' = "returned"
    /\ mon_error' = "ConnectionClosedError"
    /\ UNCHANGED <<data, order_books, ob_pos, ob_error, states, mb_status, foldVars, ob_resets,
                   ob_filtered,
                   data_buffer, cur_buffer_size, write_tasks, files, mon_received>>

\* KeyboardInterrupt in the loop: the handler flushes the buffer and monitor() returns
MonitorKeyboardInterrupt ==
    /\ mon_status = "running"
    /\ LET r == MarketMonitor_flush_buffer(Monitor)
       IN /\ data_buffer' = r.data_buffer
          /\ cur_buffer_size' = r.cur_buffer_size
          /\ write_tasks' = r.write_tasks
    /\ mon_status' = "returned"
    /\ mon_error' = "KeyboardInterrupt"
    /\ UNCHANGED <<data, order_books, ob_pos, ob_error, states, mb_status, foldVars, ob_resets,
                   ob_filtered,
                   files, mon_received>>

\* the entry of the buffer appended first comes first
EarlierEntry(x, y) ==
    \/ x.msg < y.msg
    \/ x.msg = y.msg /\ x.pos < y.pos
    \/ x.msg = y.msg /\ x.pos = y.pos /\ x.sub < y.sub

\* buffer.items() of a defaultdict(list): the asset ids that got an entry, in
\* the order of their first entry
BufferKeys(buffer) ==
    LET keys == {cid \in DOMAIN buffer : buffer[cid] # <<>>}
    IN CHOOSE s \in [1..Cardinality(keys) -> keys] :
          \A i, j \in 1..Cardinality(keys) :
             i < j => EarlierEntry(buffer[s[i]][1], buffer[s[j]][1])

\* MarketMonitor.write_buffer in the thread of task k, one key of the buffer
\* at a time: the updates of the key are appended to its file as lines
WriteBuffer ==
    \E k \in 1..Len(write_tasks) :
       LET task == write_tasks[k]
           keys == BufferKeys(task.buffer)
       IN /\ task.written < Len(keys)
          /\ files' = [files EXCEPT ![keys[task.written + 1]] =
                          @ \o task.buffer[keys[task.written + 1]]]
          /\ write_tasks' = [write_tasks EXCEPT ![k].written = @ + 1]
    /\ UNCHANGED <<data, order_books, ob_pos, ob_error, states, mb_status, foldVars, ob_resets,
                   ob_filtered,
                   data_buffer, cur_buffer_size, mon_received, mon_status, mon_error>>

NextMonitor ==
    MonitorReceive \/ MonitorConnectionClosed \/ MonitorKeyboardInterrupt \/ WriteBuffer

\* one run of MarketMonitor.monitor
SpecMonitor == Init /\ [][NextMonitor]_vars

-----------------------------------------------------------------------------
\* Vocabulary of the properties.

HasLevel(levels, p) == \E i \in 1..Len(levels) : levels[i].price = p

\* the sizes (as numbers) of the levels at price p, in list order
SizesAt(levels, p) ==
    LET at == SelectSeq(levels, LAMBDA l : l.price = p)
    IN [i \in 1..Len(at) |-> ToFloat(at[i].size)]

StrictlyAscending(levels) ==
    \A i \in 1..(Len(levels) - 1) : levels[i].price < levels[i + 1].price

NoZeroLevel(levels) == \A i \in 1..Len(levels) : ToFloat(levels[i].size) # 0

SameLevels(s, t) == s.bids = t.bids /\ s.asks = t.asks

\* a delta of one change, applied by the live and by the historical code
OneChange(a, c) == PriceChangeEvent(a, <<c>>, 1)
LiveApply(a, book, e) == OrderBook_update([order_books EXCEPT ![a] = book], e).books[a]
ReplayApply(book, e) == MarketBook_update(e, book).state

\* the stored books that are present: the prior states a delta can meet
Present(a) == order_books[a].present

-----------------------------------------------------------------------------
\* C1: after every apply call (snapshot or delta) both bids and asks are
\* strictly ascending by price: sorted, and one level per price.
C1_SortedInvariant ==
    \A a \in Assets :
        /\ StrictlyAscending(order_books[a].bids)
        /\ StrictlyAscending(order_books[a].asks)

\* C2: spill. A level (p, a) on the opposite side, none at p on the named side,
\* and a change (p, side, s) with s > a: the opposite level is removed and the
\* named side holds a level at p of size s - a.
C2_SpillPost(book, c, after) ==
    \A k \in 1..Len(book[CounterTargetOf(c.side)]) :
        LET l == book[CounterTargetOf(c.side)][k]
        IN (/\ l.price = c.price
            /\ ~HasLevel(book[TargetOf(c.side)], c.price)
            /\ ToFloat(c.size) > ToFloat(l.size))
           => /\ ~HasLevel(after[CounterTargetOf(c.side)], c.price)
              /\ SizesAt(after[TargetOf(c.side)], c.price)
                    = <<ToFloat(c.size) - ToFloat(l.size)>>

C2_Spill ==
    \A a \in Assets, c \in Changes :
        Present(a) =>
            /\ C2_SpillPost(order_books[a], c, LiveApply(a, order_books[a], OneChange(a, c)))
            /\ C2_SpillPost(order_books[a], c, ReplayApply(order_books[a], OneChange(a, c)))

\* C3: a zero-size removal of an existing level is idempotent: applying the
\* same delta again changes neither bids nor asks.
C3_ZeroRemovalIdempotent ==
    \A a \in Assets, c \in Changes :
        (/\ Present(a)
         /\ ToFloat(c.size) = 0
         /\ HasLevel(order_books[a][TargetOf(c.side)], c.price))
        => LET e == OneChange(a, c)
               live1 == LiveApply(a, order_books[a], e)
               replay1 == ReplayApply(order_books[a], e)
           IN /\ SameLevels(LiveApply(a, live1, e), live1)
              /\ SameLevels(ReplayApply(replay1, e), replay1)

\* C4: a change (p, side, 0) applied to a state with a level at p on the named
\* side yields a state with no level at p on that side.
C4_ZeroRemoval ==
    \A a \in Assets, c \in Changes :
        (/\ Present(a)
         /\ ToFloat(c.size) = 0
         /\ HasLevel(order_books[a][TargetOf(c.side)], c.price))
        => LET e == OneChange(a, c)
           IN /\ ~HasLevel(LiveApply(a, order_books[a], e)[TargetOf(c.side)], c.price)
              /\ ~HasLevel(ReplayApply(order_books[a], e)[TargetOf(c.side)], c.price)

\* C5: no state reached from the absent state by snapshots without zero-size
\* levels and by deltas holds a level of size 0.
C5_NoZeroSizeLevel ==
    \A a \in Assets :
        /\ NoZeroLevel(order_books[a].bids)
        /\ NoZeroLevel(order_books[a].asks)

\* C6: complementary inference. A level (p, a) on the opposite side, none at p
\* on the named side, and a change (p, side, s) with 0 < s < a: the opposite
\* level at p has size a - s and the named side gets no level at p.
C6_InferencePost(book, c, after) ==
    \A k \in 1..Len(book[CounterTargetOf(c.side)]) :
        LET l == book[CounterTargetOf(c.side)][k]
        IN (/\ l.price = c.price
            /\ ~HasLevel(book[TargetOf(c.side)], c.price)
            /\ 0 < ToFloat(c.size)
            /\ ToFloat(c.size) < ToFloat(l.size))
           => /\ SizesAt(after[CounterTargetOf(c.side)], c.price)
                    = <<ToFloat(l.size) - ToFloat(c.size)>>
              /\ ~HasLevel(after[TargetOf(c.side)], c.price)

C6_ComplementaryInference ==
    \A a \in Assets, c \in Changes :
        Present(a) =>
            /\ C6_InferencePost(order_books[a], c, LiveApply(a, order_books[a], OneChange(a, c)))
            /\ C6_InferencePost(order_books[a], c, ReplayApply(order_books[a], OneChange(a, c)))

\* C7: fallback insertion. No level at p on either side and a change
\* (p, side, s) with s > 0: the named side gains exactly the level (p, s) and
\* the other side is unchanged.
C7_FallbackCase(book, c) ==
    /\ book.present
    /\ ToFloat(c.size) > 0
    /\ ~HasLevel(book.bids, c.price)
    /\ ~HasLevel(book.asks, c.price)

C7_FallbackPost(book, c, after) ==
    LET named == after[TargetOf(c.side)]
        k == FirstIndex(named, c.price)
    IN /\ k # 0
       /\ named[k] = Level(c.price, c.size)
       /\ Pop(named, k) = book[TargetOf(c.side)]
       /\ after[CounterTargetOf(c.side)] = book[CounterTargetOf(c.side)]

C7_FallbackInsertion ==
    \A a \in Assets, c \in Changes :
        C7_FallbackCase(order_books[a], c) =>
            /\ C7_FallbackPost(order_books[a], c, LiveApply(a, order_books[a], OneChange(a, c)))
            /\ C7_FallbackPost(order_books[a], c, ReplayApply(order_books[a], OneChange(a, c)))

\* a stored book with a level on each side at one price, met by a change at the
\* other price, into which the level has been inserted
C7_Witness ==
    \E a \in Assets, c \in Changes :
        /\ C7_FallbackCase(order_books[a], c)
        /\ order_books[a].bids # <<>>
        /\ order_books[a].asks # <<>>
        /\ Len(LiveApply(a, order_books[a], OneChange(a, c))[TargetOf(c.side)])
              = Len(order_books[a][TargetOf(c.side)]) + 1

-----------------------------------------------------------------------------
\* Properties of the replay.

\* the book-mutating events of a log, in order
Mutating(log) ==
    SelectSeq(log, LAMBDA e : e.event_type = "book" \/ e.event_type = "price_change")

\* the events of the log that belong to the target instrument
TargetLog == SelectSeq(data, LAMBDA e : e.asset_id = TargetAsset)

\* the entries the live reader has consumed
Consumed == SubSeq(data, 1, ob_pos)

RECURSIVE FoldPrefix(_, _)
\* the state after the first k events of m, folded from the absent state; apply
\* gives the state the timestamp of its event
FoldPrefix(m, k) ==
    IF k = 0 THEN NO_PREVIOUS_STATE
    ELSE [MarketBook_update(m[k], FoldPrefix(m, k - 1)).state
            EXCEPT !.timestamp = m[k].timestamp]

\* C8: a delta that meets the absent state fails in both modes and leaves no
\* book state; only a snapshot leaves the absent state.  (ob_error is the
\* outcome of the call that consumed entry ob_pos unless a later call found the
\* iterator exhausted.)
C8_DeltaOnAbsentFails ==
    /\ (/\ ob_pos > 0
        /\ ob_error # "StopIteration"
        /\ data[ob_pos].event_type = "price_change"
        /\ \A i \in 1..(ob_pos - 1) :
              ~(data[i].event_type = "book" /\ data[i].asset_id = data[ob_pos].asset_id))
       => /\ ob_error = "KeyError"
          /\ order_books[data[ob_pos].asset_id] = NO_PREVIOUS_STATE
    /\ \A a \in Assets :
          order_books[a].present
             => \E i \in 1..ob_pos : data[i].event_type = "book" /\ data[i].asset_id = a
    /\ (/\ Mutating(TargetLog) # <<>>
        /\ Mutating(TargetLog)[1].event_type = "price_change")
       => /\ mb_status \in {"unbuilt", "ValueError"}
          /\ states = <<>>
    /\ mb_status = "ValueError"
       => /\ Mutating(TargetLog) # <<>>
          /\ Mutating(TargetLog)[1].event_type = "price_change"

\* both readers have met a delta before any snapshot, and both have failed
C8_Witness ==
    /\ ob_pos > 0
    /\ data[ob_pos].event_type = "price_change"
    /\ ob_error = "KeyError"
    /\ order_books[TargetAsset] = NO_PREVIOUS_STATE
    /\ mb_status = "ValueError"

\* C9: for a log whose book-mutating events start with a snapshot, the live book
\* after its first k book-mutating events has the bids and asks of the
\* MarketBook state at index k, for every k.
C9_LiveEqualsReplay ==
    mb_status = "built"
       => LET k == Len(Mutating(SelectSeq(Consumed, LAMBDA e : e.asset_id = TargetAsset)))
          IN /\ order_books[TargetAsset].present = states[k + 1].present
             /\ SameLevels(order_books[TargetAsset], states[k + 1])

\* a snapshot and two deltas replayed by both readers, with both sides quoted
C9_Witness ==
    /\ mb_status = "built"
    /\ ob_pos = Len(data)
    /\ Len(data) >= 3
    /\ data[1].event_type = "book"
    /\ data[1].bids # <<>>
    /\ data[2].event_type = "price_change"
    /\ data[3].event_type = "price_change"
    /\ order_books[TargetAsset].bids # <<>>
    /\ order_books[TargetAsset].asks # <<>>

\* C10: the series is a dense fold: 1 + (number of book and price_change events)
\* states, the absent marker at index 0, at index k the fold of the first k
\* book-mutating events, and at index -1 the fold of the whole log.
C10_DenseFold ==
    mb_status = "built"
       => LET m == Mutating(TargetLog)
          IN /\ Len(states) = 1 + Len(m)
             /\ MarketBook_getitem(states, 0) = NO_PREVIOUS_STATE
             /\ \A k \in 1..Len(m) : MarketBook_getitem(states, k) = FoldPrefix(m, k)
             /\ MarketBook_getitem(states, 0 - 1) = FoldPrefix(m, Len(m))

\* a series built from a log with an ignored event between mutating ones
C10_Witness ==
    /\ mb_status = "built"
    /\ Len(states) = 3
    /\ Len(data) = 3
    /\ data[2].event_type \in OtherKinds
    /\ data[3].event_type = "price_change"
    /\ states[3].asks # <<>>

-----------------------------------------------------------------------------
\* Properties of the stepwise fold.

\* the states the local list of the running fold names, as values
FoldStates == [k \in 1..Len(mb_refs) |-> Deref(heap, mb_refs[k])]

\* C11: copy-on-write. Once the state at index k has been appended, folding
\* further events leaves its bids, asks and timestamp as they were (and the
\* list keeps naming it at index k).
C11_CopyOnWrite ==
    [][fold_status' \in {"running", "done"}
        => \A k \in 1..Len(mb_refs) :
              /\ k <= Len(mb_refs')
              /\ Deref(heap', mb_refs'[k]) = Deref(heap, mb_refs[k])]_vars

\* a finished fold of a snapshot and two deltas, each delta having changed the levels
C11_Witness ==
    /\ fold_status = "done"
    /\ Len(mb_refs) = 4
    /\ ~SameLevels(FoldStates[2], FoldStates[3])
    /\ ~SameLevels(FoldStates[3], FoldStates[4])
    /\ FoldStates[2].present

\* the stepwise fold ends with the series MarketBook_generate_states computes
FoldAgreesWithSeries ==
    LET r == MarketBook_generate_states(data, TargetAsset)
    IN /\ fold_status = "done" => r.error = "none" /\ FoldStates = r.states
       /\ fold_status = "ValueError" => r.error = "ValueError"

-----------------------------------------------------------------------------
\* Events that carry changes for several instruments.

\* the instruments a change entry may name
ChangeAssets == {"A", "B"}

\* a change entry of the wire shape that names its own instrument
ChangeFor(a, p, side, v) == [asset_id |-> a, price |-> p, side |-> side, size |-> v]

ChangesFor ==
    {ChangeFor(a, p, side, Str(v)) :
        a \in ChangeAssets, p \in Prices, side \in Sides, v \in FeedSizes}

\* price_change events filed under instrument a whose changes name instruments
MultiInstrumentEvents(a) ==
    {PriceChangeEvent(a, cs, 1) : cs \in UNION {[1..n -> ChangesFor] : n \in ChangeCounts}}

\* the changes of an event that name instrument a
OwnChanges(e, a) == SelectSeq(e.changes, LAMBDA c : c.asset_id = a)

\* C12: a price_change event with changes for several instruments updates the
\* book of an instrument with exactly the changes that name that instrument.
C12_OwnChangesOnly ==
    \A a \in Assets :
        Present(a) =>
            \A e \in MultiInstrumentEvents(a) :
                LET own == [e EXCEPT !.changes = OwnChanges(e, a)]
                IN /\ SameLevels(LiveApply(a, order_books[a], e),
                                 LiveApply(a, order_books[a], own))
                   /\ SameLevels(ReplayApply(order_books[a], e),
                                 ReplayApply(order_books[a], own))

-----------------------------------------------------------------------------
\* Properties of reset.

\* the entries the live reader has still to take
Remaining == SubSeq(data, ob_pos + 1, Len(data))

\* C13: reset from a timestamp restricts the log to the suffix that starts at
\* the first event whose timestamp is greater than or equal to it; an event
\* with exactly that timestamp is included.
C13_ResetIncludesEqual ==
    \A t \in ResetTimes :
        LET at_or_after == {i \in 1..Len(data) :
                               ~LaterThan(t, unix_to_utc(data[i].timestamp))}
        IN at_or_after # {} =>
              LET first == CHOOSE i \in at_or_after : \A j \in at_or_after : i <= j
                  r == load_data_cache(data, t)
              IN /\ r.error = "none"
                 /\ r.result = SubSeq(data, first, Len(data))

\* C14: immediately after reset, with or without a timestamp, the book of every
\* instrument is absent.
C14_ResetClearsBooks ==
    [][(Reset \/ (ResetFrom /\ ob_error' = "none"))
          => \A a \in Assets : ~order_books'[a].present]_vars

-----------------------------------------------------------------------------
\* Properties of the ignored kinds, of the queries and of snapshots.

IgnoredKinds == {"tick_size_change", "last_trade_price"}

\* the log with the events of the ignored kinds deleted
WithoutIgnored(log) == SelectSeq(log, LAMBDA e : e.event_type \notin IgnoredKinds)

\* C15: tick_size_change and last_trade_price are ignored in both modes:
\* OrderBook.update leaves every book as it is, and the MarketBook series is
\* the one built from the log with those events deleted.
C15_IgnoredKinds ==
    /\ \A e \in OtherEvents :
          e.event_type \in IgnoredKinds
             => OrderBook_update(order_books, e) = [error |-> "none", books |-> order_books]
    /\ (/\ ob_pos > 0
        /\ ob_pos < Len(data)
        /\ data[ob_pos + 1].event_type \in IgnoredKinds)
       => OrderBook_update(order_books, data[ob_pos + 1]).books = order_books
    /\ LET r == MarketBook_generate_states(WithoutIgnored(data), TargetAsset)
       IN /\ mb_status = "built" => r.error = "none" /\ states = r.states
          /\ mb_status = "ValueError" => r.error = "ValueError"

\* both readers have gone through a log with an ignored event between a
\* snapshot and a delta
C15_Witness ==
    /\ mb_status = "built"
    /\ Len(data) = 3
    /\ ob_pos = 3
    /\ data[1].event_type = "book"
    /\ data[2].event_type \in IgnoredKinds
    /\ data[3].event_type = "price_change"
    /\ Len(states) = 3
    /\ ~SameLevels(states[2], states[3])
    /\ ob_error = "none"

\* C17: best bid and best ask at index 0, or at the negative index that names
\* position 0, fail for every log, the empty log included.
C17_AbsentStateQueryFails ==
    mb_status = "built"
       => \A index \in {0, 0 - Len(states)} :
             /\ MarketBook_get_best_bid(states, index).error = "ValueError"
             /\ MarketBook_get_best_ask(states, index).error = "ValueError"

\* a series with two states behind the marker, both sides of the first quoted
C17_Witness ==
    /\ mb_status = "built"
    /\ Len(states) = 3
    /\ states[2].bids # <<>>
    /\ states[2].asks # <<>>
    /\ MarketBook_get_best_bid(states, 0 - 3).error = "ValueError"

\* C18: for every present state of the series, get_best_bid returns a level
\* with the highest price among the bids and get_best_ask a level with the
\* lowest price among the asks.
C18_BestIsExtreme ==
    mb_status = "built"
       => \A index \in 1..(Len(states) - 1) :
             LET book == MarketBook_getitem(states, index)
                 bid == MarketBook_get_best_bid(states, index)
                 ask == MarketBook_get_best_ask(states, index)
             IN /\ book.bids # <<>>
                   => /\ bid.error = "none"
                      /\ \E i \in 1..Len(book.bids) :
                            /\ book.bids[i].price = bid.price
                            /\ ToFloat(book.bids[i].size) = bid.size
                      /\ \A i \in 1..Len(book.bids) : book.bids[i].price <= bid.price
                /\ book.asks # <<>>
                   => /\ ask.error = "none"
                      /\ \E i \in 1..Len(book.asks) :
                            /\ book.asks[i].price = ask.price
                            /\ ToFloat(book.asks[i].size) = ask.size
                      /\ \A i \in 1..Len(book.asks) : ask.price <= book.asks[i].price

\* a series whose last state, made by a delta, has asks at two prices and a bid
C18_Witness ==
    /\ mb_status = "built"
    /\ Len(states) >= 3
    /\ LET book == MarketBook_getitem(states, 0 - 1)
       IN /\ Len(book.asks) >= 2
          /\ book.asks[1].price < book.asks[Len(book.asks)].price
          /\ book.bids # <<>>
    /\ data[Len(data)].event_type = "price_change"

\* the levels of a list as a set
LevelSet(levels) == {levels[i] : i \in 1..Len(levels)}

\* C19: a snapshot ignores the prior state: from the absent state and from any
\* present state it yields the same state, whose bids and asks are the event's
\* levels in ascending order of price; applying it twice changes nothing.
C19_SnapshotIgnoresPrior ==
    \A a \in Assets, e \in BookEvents :
        e.asset_id = a =>
            LET live == LiveApply(a, order_books[a], e)
                replay == MarketBook_update(e, order_books[a])
                fresh == MarketBook_update(e, NO_PREVIOUS_STATE)
            IN /\ replay.error = "none"
               /\ fresh.error = "none"
               /\ live = fresh.state
               /\ replay.state = fresh.state
               /\ live.present
               /\ live.timestamp = e.timestamp
               /\ StrictlyAscending(live.bids)
               /\ StrictlyAscending(live.asks)
               /\ Len(live.bids) = Len(e.bids)
               /\ Len(live.asks) = Len(e.asks)
               /\ LevelSet(live.bids) = LevelSet(e.bids)
               /\ LevelSet(live.asks) = LevelSet(e.asks)
               /\ LiveApply(a, live, e) = live
               /\ MarketBook_update(e, live).state = live

\* a stored book that deltas have worked on (a derived size on one side, levels
\* on both), met by snapshots whose lists are not in ascending order
C19_Witness ==
    \E a \in Assets :
        /\ Present(a)
        /\ order_books[a].bids # <<>>
        /\ order_books[a].asks # <<>>
        /\ \E i \in 1..Len(order_books[a].bids) : order_books[a].bids[i].size.kind # "str"
        /\ \E e \in BookEvents :
              /\ Len(e.bids) = 2
              /\ e.bids[1].price > e.bids[2].price
              /\ LiveApply(a, order_books[a], e).bids # e.bids

-----------------------------------------------------------------------------
\* Properties of the monitor.

\* C16: an event of unrecognized kind is skipped without failure in live mode:
\* no error is raised, book state and buffered data stay as they are, and the
\* consumer goes on with the next event.
C16_UnknownKindSkipped ==
    /\ \A a \in Assets :
          OrderBook_update(order_books, OtherEvent("unknown", a, 1))
             = [error |-> "none", books |-> order_books]
    /\ mon_status = "running"
          => LET message == [pong |-> FALSE,
                             updates |-> <<WireUpdate("unknown", "A", <<>>)>>]
                 r == MonitorTurn(Monitor, message, mon_received + 1)
             IN /\ r.error = "none"
                /\ r.data_buffer = data_buffer
                /\ r.write_tasks = write_tasks

-----------------------------------------------------------------------------
\* Properties of malformed deltas.

\* changes whose size or whose price is a string that is no number
MalformedChanges ==
    {Change(p, side, NonNumeric) : p \in Prices, side \in Sides}
    \cup {Change(NonNumericPrice, side, Str(v)) : side \in Sides, v \in FeedSizes}

WellFormedLevels(levels) ==
    \A i \in 1..Len(levels) : IsNumeric(levels[i].size) /\ PriceIsNumeric(levels[i].price)

\* C21: a delta whose size or price is a non-numeric string fails with an error
\* and is not stored: no state holds a level with a non-numeric size or price.
C21_MalformedDeltaRejected ==
    \A a \in Assets, c \in MalformedChanges :
        Present(a) =>
            LET live == OrderBook_update(order_books, OneChange(a, c))
                replay == MarketBook_update(OneChange(a, c), order_books[a])
            IN /\ live.error # "none"
               /\ WellFormedLevels(live.books[a].bids)
               /\ WellFormedLevels(live.books[a].asks)
               /\ replay.error # "none"

-----------------------------------------------------------------------------
\* C22: every state carries the timestamp of the event that produced it: the
\* stored live book after a snapshot or a delta has been applied, and the state
\* at index k of the series.
C22_StateCarriesEventTimestamp ==
    /\ (/\ ob_pos > 0
        /\ ob_error = "none"
        /\ data[ob_pos].event_type \in {"book", "price_change"})
       => order_books[data[ob_pos].asset_id].timestamp = data[ob_pos].timestamp
    /\ mb_status = "built"
       => \A k \in 1..Len(Mutating(TargetLog)) :
             states[k + 1].timestamp = Mutating(TargetLog)[k].timestamp

-----------------------------------------------------------------------------
\* C23: spill with an existing same-side level. A level at p on the named side,
\* a level (p, a) on the opposite side, and a change (p, side, s) with s > a:
\* the named side holds exactly one level at p, of size s - a, and the opposite
\* side is left as it was.
C23_SpillOverwritePost(book, c, after) ==
    \A k \in 1..Len(book[CounterTargetOf(c.side)]) :
        LET l == book[CounterTargetOf(c.side)][k]
        IN (/\ l.price = c.price
            /\ HasLevel(book[TargetOf(c.side)], c.price)
            /\ ToFloat(c.size) > ToFloat(l.size))
           => /\ SizesAt(after[TargetOf(c.side)], c.price)
                    = <<ToFloat(c.size) - ToFloat(l.size)>>
              /\ after[CounterTargetOf(c.side)] = book[CounterTargetOf(c.side)]

C23_SpillOverwrite ==
    \A a \in Assets, c \in Changes :
        Present(a) =>
            /\ C23_SpillOverwritePost(order_books[a], c,
                                      LiveApply(a, order_books[a], OneChange(a, c)))
            /\ C23_SpillOverwritePost(order_books[a], c,
                                      ReplayApply(order_books[a], OneChange(a, c)))

\* C24: exact cancellation. A level (p, s) on the opposite side, none at p on
\* the named side, and a change (p, side, s): afterwards neither side holds a
\* level at p.
C24_CancellationPost(book, c, after) ==
    \A k \in 1..Len(book[CounterTargetOf(c.side)]) :
        LET l == book[CounterTargetOf(c.side)][k]
        IN (/\ l.price = c.price
            /\ ~HasLevel(book[TargetOf(c.side)], c.price)
            /\ ToFloat(c.size) = ToFloat(l.size))
           => /\ ~HasLevel(after.bids, c.price)
              /\ ~HasLevel(after.asks, c.price)

C24_ExactCancellation ==
    \A a \in Assets, c \in Changes :
        Present(a) =>
            /\ C24_CancellationPost(order_books[a], c,
                                    LiveApply(a, order_books[a], OneChange(a, c)))
            /\ C24_CancellationPost(order_books[a], c,
                                    ReplayApply(order_books[a], OneChange(a, c)))

-----------------------------------------------------------------------------
\* Two instruments in one OrderBook: the stored book of A next to a book of B.

\* the books B can hold: none, or one with levels on both sides
OtherBooks ==
    {NO_PREVIOUS_STATE,
     BookOf(<<Level(1, Str(1))>>, <<Level(2, Str(2))>>, 1)}

TwoBooks(a, other) ==
    [cid \in {a, OtherAsset} |-> IF cid = a THEN order_books[a] ELSE other]

\* the events of the feed, all kinds, filed under instrument cid
FeedEvents == BookEvents \cup PriceChangeEvents \cup OtherEvents
ForAsset(e, cid) == [e EXCEPT !.asset_id = cid]

\* a snapshot, a delta, a failing delta's cause and an ignored event for B
OtherFeed ==
    {BookEvent(OtherAsset, <<Level(2, Str(1))>>, <<>>, 1),
     PriceChangeEvent(OtherAsset, <<Change(1, "SELL", Str(2))>>, 1),
     PriceChangeEvent(OtherAsset, <<Change(2, "BUY", Str(0))>>, 1),
     OtherEvent("tick_size_change", OtherAsset, 1)}

\* an event for A leaves B as it was
IsolatedFrame(a, other, e) ==
    OrderBook_update(TwoBooks(a, other), e).books[OtherAsset] = other

\* an event for A acts on A as it does with A alone
IsolatedEffect(a, other, e) ==
    /\ OrderBook_update(TwoBooks(a, other), e).books[a]
          = OrderBook_update(order_books, e).books[a]
    /\ OrderBook_update(TwoBooks(a, other), e).error
          = OrderBook_update(order_books, e).error

\* an event e for A and an event f for B, in either order
Interleaved(a, other, e, f) ==
    /\ OrderBook_update(TwoBooks(a, other), f).books[a] = order_books[a]
    /\ OrderBook_update(OrderBook_update(TwoBooks(a, other), e).books, f).books
          = OrderBook_update(OrderBook_update(TwoBooks(a, other), f).books, e).books

\* the events interleaved with B's: snapshots, one-change deltas, the rest
InterleavedEvents ==
    BookEvents \cup {OneChange(a, c) : a \in Assets, c \in Changes} \cup OtherEvents

\* C25: cross-instrument isolation in the live book. An event for A (snapshot,
\* delta, ignored or failing) leaves the stored book of every other instrument
\* B unchanged and acts on A as it does with A alone; an event for A and an
\* event for B give the same books in either order.
C25_CrossInstrumentIsolation ==
    \A a \in Assets, other \in OtherBooks :
        /\ \A e \in FeedEvents : IsolatedFrame(a, other, ForAsset(e, a))
        /\ \A e \in InterleavedEvents :
              /\ IsolatedEffect(a, other, ForAsset(e, a))
              /\ \A f \in OtherFeed : Interleaved(a, other, ForAsset(e, a), f)

\* a stored book of A that a delta changes while B holds levels, and a
\* snapshot for A next to them
C25_Witness ==
    \E a \in Assets, other \in OtherBooks, c \in Changes, b \in BookEvents :
        /\ Present(a) /\ order_books[a].bids # <<>>
        /\ other.present /\ other.bids # <<>>
        /\ OrderBook_update(TwoBooks(a, other), OneChange(a, c)).books[a] # order_books[a]
        /\ OrderBook_update(TwoBooks(a, other), OneChange(a, c)).books[OtherAsset] = other
        /\ OrderBook_update(TwoBooks(a, other), b).books[a] # order_books[a]
        /\ OrderBook_update(TwoBooks(a, other), b).books[OtherAsset] = other

-----------------------------------------------------------------------------
\* C26: after a ConnectionClosedError or any unexpected error in the receive
\* loop the monitor reconnects and goes on consuming: it does not terminate,
\* so a run that has ended ended by KeyboardInterrupt.
C26_ReconnectsAfterFailure ==
    mon_error \in {"ConnectionClosedError", "ValueError", "JSONDecodeError"}
        => mon_status = "running"

-----------------------------------------------------------------------------
\* Properties of the buffer and its batches.

\* the entries of a buffer, and of the part of a task's buffer already written
BufferEntries(buffer) ==
    UNION {{buffer[cid][i] : i \in 1..Len(buffer[cid])} : cid \in DOMAIN buffer}

WrittenEntries(task) ==
    UNION {{task.buffer[BufferKeys(task.buffer)[n]][i] :
               i \in 1..Len(task.buffer[BufferKeys(task.buffer)[n]])} :
           n \in 1..task.written}

\* C27: flush_buffer hands exactly the buffer contents at the moment of the
\* call to the writer and resets the monitor: afterwards data_buffer is empty
\* and cur_buffer_size is 0, and entries buffered after the call are not part
\* of a batch being written (nor of a file before their own batch is written).
C27_FlushHandsOverBuffer ==
    /\ MarketMonitor_flush_buffer(Monitor).write_tasks
          = Append(write_tasks, [buffer |-> data_buffer, written |-> 0])
    /\ MarketMonitor_flush_buffer(Monitor).data_buffer = EmptyBuffer
    /\ MarketMonitor_flush_buffer(Monitor).cur_buffer_size = 0
    /\ \A k \in 1..Len(write_tasks) :
          /\ BufferEntries(write_tasks[k].buffer) \cap BufferEntries(data_buffer) = {}
          /\ \A l \in 1..Len(write_tasks) :
                k # l => BufferEntries(write_tasks[k].buffer)
                            \cap BufferEntries(write_tasks[l].buffer) = {}
    /\ BufferEntries(files) = UNION {WrittenEntries(write_tasks[k]) : k \in 1..Len(write_tasks)}

\* a batch with entries has been written to its file while entries that came
\* after the flush wait in the buffer
C27_Witness ==
    /\ mon_status = "running"
    /\ \E k \in 1..Len(write_tasks) :
          /\ write_tasks[k].written > 0
          /\ write_tasks[k].written = Len(BufferKeys(write_tasks[k].buffer))
    /\ BufferEntries(files) # {}
    /\ BufferEntries(data_buffer) # {}
    /\ cur_buffer_size > 0

-----------------------------------------------------------------------------
\* Algebra of deltas.

\* the levels at price q, in list order
LevelsAt(levels, q) == SelectSeq(levels, LAMBDA l : l.price = q)

NamedPrices(e) == {e.changes[i].price : i \in 1..Len(e.changes)}

SameAwayFrom(e, before, after) ==
    \A q \in Prices \ NamedPrices(e) :
        /\ LevelsAt(after.bids, q) = LevelsAt(before.bids, q)
        /\ LevelsAt(after.asks, q) = LevelsAt(before.asks, q)

\* C28: delta frame. Applying a delta changes only levels at the prices named
\* in its changes; every level at any other price, on bids and on asks, is in
\* the resulting state with the size it had.
C28_DeltaFrame ==
    \A a \in Assets, e \in PriceChangeEvents :
        Present(a) =>
            /\ SameAwayFrom(e, order_books[a], LiveApply(a, order_books[a], e))
            /\ SameAwayFrom(e, order_books[a], ReplayApply(order_books[a], e))

\* a stored book with a level at the price a removal names and a level at
\* another price next to it
C28_Witness ==
    \E a \in Assets, c \in Changes, q \in Prices :
        /\ Present(a)
        /\ q # c.price
        /\ ToFloat(c.size) = 0
        /\ HasLevel(order_books[a][TargetOf(c.side)], c.price)
        /\ HasLevel(order_books[a][TargetOf(c.side)], q)
        /\ HasLevel(order_books[a][CounterTargetOf(c.side)], q)
        /\ ~SameLevels(LiveApply(a, order_books[a], OneChange(a, c)), order_books[a])
        /\ ~SameLevels(ReplayApply(order_books[a], OneChange(a, c)), order_books[a])

\* the changes of the feed, and changes whose size is no number
AnySizeChanges == Changes \cup {Change(p, side, NonNumeric) : p \in Prices, side \in Sides}

\* the live book after one delta with the changes c1, c2, and after two
\* deltas of one change each
LiveTogether(a, c1, c2) == OrderBook_update(order_books, PriceChangeEvent(a, <<c1, c2>>, 1))
LiveFirst(a, c1) == OrderBook_update(order_books, OneChange(a, c1))
LiveInTurn(a, c1, c2) == OrderBook_update(LiveFirst(a, c1).books, OneChange(a, c2))

\* the same for the historical code
ReplayTogether(a, c1, c2) == MarketBook_update(PriceChangeEvent(a, <<c1, c2>>, 1), order_books[a])
ReplayFirst(a, c1) == MarketBook_update(OneChange(a, c1), order_books[a])
ReplayInTurn(a, c1, c2) == MarketBook_update(OneChange(a, c2), ReplayFirst(a, c1).state)

\* C29: a delta with several changes is the sequential composition of its
\* changes: it applies exactly when the one-change deltas apply one after
\* another, and then it gives the same bids and asks.
C29_SequentialComposition ==
    \A a \in Assets, c1 \in AnySizeChanges, c2 \in AnySizeChanges :
        Present(a) =>
            /\ LiveTogether(a, c1, c2).error = "none"
                  <=> (LiveFirst(a, c1).error = "none" /\ LiveInTurn(a, c1, c2).error = "none")
            /\ LiveTogether(a, c1, c2).error = "none"
                  => SameLevels(LiveTogether(a, c1, c2).books[a], LiveInTurn(a, c1, c2).books[a])
            /\ ReplayTogether(a, c1, c2).error = "none"
                  <=> (ReplayFirst(a, c1).error = "none" /\ ReplayInTurn(a, c1, c2).error = "none")
            /\ ReplayTogether(a, c1, c2).error = "none"
                  => SameLevels(ReplayTogether(a, c1, c2).state, ReplayInTurn(a, c1, c2).state)

\* a stored book on which both changes of a delta act
C29_Witness ==
    \E a \in Assets, c1 \in Changes, c2 \in Changes :
        /\ Present(a)
        /\ order_books[a].bids # <<>>
        /\ LiveTogether(a, c1, c2).error = "none"
        /\ ~SameLevels(LiveFirst(a, c1).books[a], order_books[a])
        /\ ~SameLevels(LiveTogether(a, c1, c2).books[a], LiveFirst(a, c1).books[a])
        /\ ~SameLevels(LiveTogether(a, c1, c2).books[a], order_books[a])
        /\ ~SameLevels(ReplayTogether(a, c1, c2).state, ReplayFirst(a, c1).state)

\* both one-change deltas apply, in this order
LiveBothApply(a, c1, c2) ==
    LiveFirst(a, c1).error = "none" /\ LiveInTurn(a, c1, c2).error = "none"

ReplayBothApply(a, c1, c2) ==
    ReplayFirst(a, c1).error = "none" /\ ReplayInTurn(a, c1, c2).error = "none"

\* C30: changes at distinct prices commute: c1 then c2 applies exactly when
\* c2 then c1 applies, and both orders give the same bids and asks.
C30_DistinctPricesCommute ==
    \A a \in Assets, c1 \in AnySizeChanges, c2 \in AnySizeChanges :
        (Present(a) /\ c1.price # c2.price) =>
            /\ LiveBothApply(a, c1, c2) <=> LiveBothApply(a, c2, c1)
            /\ LiveBothApply(a, c1, c2)
                  => SameLevels(LiveInTurn(a, c1, c2).books[a], LiveInTurn(a, c2, c1).books[a])
            /\ ReplayBothApply(a, c1, c2) <=> ReplayBothApply(a, c2, c1)
            /\ ReplayBothApply(a, c1, c2)
                  => SameLevels(ReplayInTurn(a, c1, c2).state, ReplayInTurn(a, c2, c1).state)

\* a stored book that two changes at different prices both alter, on the same
\* side, each in its own way
C30_Witness ==
    \E a \in Assets, c1 \in Changes, c2 \in Changes :
        /\ Present(a)
        /\ c1.price # c2.price
        /\ c1.side = c2.side
        /\ LiveBothApply(a, c1, c2)
        /\ ~SameLevels(LiveFirst(a, c1).books[a], order_books[a])
        /\ ~SameLevels(LiveFirst(a, c2).books[a], order_books[a])
        /\ ~SameLevels(LiveFirst(a, c1).books[a], LiveFirst(a, c2).books[a])
        /\ ~SameLevels(LiveInTurn(a, c1, c2).books[a], LiveFirst(a, c1).books[a])
        /\ ~SameLevels(ReplayInTurn(a, c1, c2).state, ReplayFirst(a, c1).state)

-----------------------------------------------------------------------------
\* Properties of failing deltas in the live book.

\* deltas of one or two changes with a malformed change among them
FailingCandidates ==
    {<<c>> : c \in MalformedChanges}
    \cup {<<c1, c2>> : c1 \in Changes, c2 \in MalformedChanges}

\* C31: a failing delta is atomic in live mode: if OrderBook.update raises
\* while it processes a price_change, the stored book of the instrument is the
\* same as before the event (no earlier change remains applied, the sides stay
\* sorted).
C31_FailingDeltaAtomic ==
    \A a \in Assets, cs \in FailingCandidates :
        OrderBook_update(order_books, PriceChangeEvent(a, cs, 1)).error # "none"
            => OrderBook_update(order_books, PriceChangeEvent(a, cs, 1)).books[a]
                  = order_books[a]

-----------------------------------------------------------------------------
\* Properties of reset, continued.

\* C32: resetting from a timestamp later than every event of the log ends
\* normally with an empty restricted log: load_data_cache returns the empty
\* list and OrderBook.reset succeeds.
C32_ResetPastEndIsEmpty ==
    \A t \in ResetTimes :
        (/\ data # <<>>
         /\ \A i \in 1..Len(data) : LaterThan(t, unix_to_utc(data[i].timestamp)))
        => load_data_cache(data, t) = [error |-> "none", result |-> <<>>]

\* C33: the instrument filter survives a reset: for an OrderBook constructed
\* with target_market = X every event next_tick returns belongs to X, before
\* and after any call of reset; so every entry the iterator has still to yield
\* belongs to X, and no book of another instrument is ever stored.
C33_FilterSurvivesReset ==
    /\ \A i \in (ob_pos + 1)..Len(OrderBook_data) :
          OrderBook_data[i].asset_id = TargetAsset
    /\ \A a \in FileAssets \ {TargetAsset} : ~order_books[a].present

-----------------------------------------------------------------------------
\* Properties of the monitor's buffer when the loop ends.

\* C34: no buffered entry is lost: every entry process_data appended is
\* written to its file, on every way the loop can end without a
\* KeyboardInterrupt.  Nothing flushes after monitor() has returned, so by then
\* no entry is left in the buffer.
C34_NoEntryLost ==
    (mon_status = "returned" /\ mon_error # "KeyboardInterrupt")
        => BufferEntries(data_buffer) = {}

\* C35: per-instrument arrival order is preserved on disk: the lines of every
\* file are in the order the entries were received, also while the
\* write_buffer threads of two flushes run at the same time.
C35_ArrivalOrderOnDisk ==
    \A cid \in MonitorAssets :
        \A i, j \in 1..Len(files[cid]) :
            i < j => EarlierEntry(files[cid][i], files[cid][j])

\* C36: cur_buffer_size equals the number of entries held in data_buffer, the
\* sum of the lengths of its lists.
C36_SizeCountsEntries ==
    cur_buffer_size = Cardinality(BufferEntries(data_buffer))

====
